---------------------------- MODULE Spec2Model ----------------------------
(***************************************************************************)
(* Model of the Auto Accept AG extension (src/src/extension.ts).           *)
(*                                                                         *)
(* The extension runs on one event-loop thread.  Every action below is one *)
(* run-to-completion handler of that loop: activate, the toggle command,   *)
(* the configuration-change listener, the resolution or rejection of a     *)
(* pending vscode.commands.getCommands() request together with the promise *)
(* continuation chained on it, one callback of an armed interval timer,    *)
(* and deactivate.  Between the assignment that ends                       *)
(* discoverAcceptCommands and the .then continuation chained on it only    *)
(* promise jobs run, and none of them writes isEnabled or pollingTimer,    *)
(* so the two are taken as one step.                                       *)
(***************************************************************************)
EXTENDS Naturals, Sequences, FiniteSets, TLC

(***************************************************************************)
(* Bounds of the model.                                                    *)
(***************************************************************************)
\* getCommands() requests in flight at once
MaxPending == 2
\* config.update('enabled', ...) writes in flight at once
MaxUpdates == 1
\* commands in a registry snapshot of the discovery specification
MaxRegistry == 2

(***************************************************************************)
(* Strings: String.prototype.toLowerCase and String.prototype.includes.    *)
(***************************************************************************)
UpperChars == "ABCDEFGHIJKLMNOPQRSTUVWXYZ"

LowerChars == "abcdefghijklmnopqrstuvwxyz"

\* upper-case letter |-> lower-case letter
LowerMap ==
    [ c \in { SubSeq(UpperChars, i, i) : i \in 1..Len(UpperChars) } |->
        LET i == CHOOSE j \in 1..Len(UpperChars) : SubSeq(UpperChars, j, j) = c
        IN  SubSeq(LowerChars, i, i) ]

LowerChar(c) == IF c \in DOMAIN LowerMap THEN LowerMap[c] ELSE c

\* s with every upper-case letter replaced by its lower-case letter
RECURSIVE LowerCased(_)
LowerCased(s) ==
    IF Len(s) = 0 THEN ""
    ELSE LowerChar(SubSeq(s, 1, 1)) \o LowerCased(SubSeq(s, 2, Len(s)))

\* kw occurs in s as a contiguous substring
Occurs(s, kw) ==
    \E i \in 1..(Len(s) + 1) :
        /\ i + Len(kw) - 1 <= Len(s)
        /\ SubSeq(s, i, i + Len(kw) - 1) = kw

\* arr.includes(x)
ArrayIncludes(arr, x) == \E k \in 1..Len(arr) : arr[k] = x

\* the elements of an array
Members(arr) == { arr[k] : k \in 1..Len(arr) }

RECURSIVE FlatMap(_)
FlatMap(seqs) ==
    IF seqs = <<>> THEN <<>> ELSE Head(seqs) \o FlatMap(Tail(seqs))

\* mutant of Dedup: the array is assigned as concatenated
DedupKeepingAll(arr) == arr

\* [...new Set(arr)]: first occurrences, in order
RECURSIVE Dedup(_)
Dedup(arr) ==
    IF arr = <<>> THEN <<>>
    ELSE LET init == Dedup(SubSeq(arr, 1, Len(arr) - 1))
             last == arr[Len(arr)]
         IN  IF ArrayIncludes(init, last) THEN init ELSE Append(init, last)

(***************************************************************************)
(* The command catalog.                                                    *)
(***************************************************************************)
PROVIDERS ==
    << [ key |-> "antigravity",
         contextKeywords |-> <<"antigravity">>,
         safeCommands |-> << "antigravity.terminalCommand.accept",
                             "antigravity.prioritized.terminalSuggestion.accept" >>,
         aggressiveCommands |-> << "antigravity.agent.acceptAgentStep",
                                   "antigravity.command.accept",
                                   "antigravity.prioritized.agentAcceptAllInFile",
                                   "antigravity.prioritized.agentAcceptFocusedHunk",
                                   "antigravity.prioritized.supercompleteAccept",
                                   "antigravity.acceptCompletion" >> ],
       [ key |-> "copilot",
         contextKeywords |-> <<"copilot">>,
         safeCommands |-> << "github.copilot.terminal.acceptCommand",
                             "github.copilot.chat.acceptTerminalCommand" >>,
         aggressiveCommands |-> << "github.copilot.acceptSuggestion" >> ] >>

BUILTIN_COMMANDS ==
    << "workbench.action.chat.acceptTerminalCommand",
       "workbench.action.chat.runInTerminal",
       "chat.action.acceptCommand",
       "chat.acceptTerminalCommand",
       "workbench.action.terminal.chat.acceptCommand",
       "workbench.action.terminal.acceptSuggestion" >>

DefaultPatterns == <<"accept", "approve", "continue", "runCommand", "confirmAction">>

ProviderKeys == { PROVIDERS[i].key : i \in 1..Len(PROVIDERS) }


(***************************************************************************)
(* Host configuration, namespace autoAcceptAG.  A configuration is a       *)
(* record [enabled, providers, aggressiveMode, commandPatterns];           *)
(* config.get(key, default) reads its field.                               *)
(***************************************************************************)
\* a second value of commandPatterns, with a mixed-case pattern
CustomPatterns == <<"runCommand">>

PatternChoices == {DefaultPatterns, CustomPatterns, <<>>}

(***************************************************************************)
(* The command identifiers the registries are made of: the catalog, and    *)
(* commands no catalog lists.  toLowerCase and includes are computed once  *)
(* for them and for the keywords, and looked up afterwards.                *)
(***************************************************************************)
CommandUniverse ==
    FlatMap([ i \in 1..Len(PROVIDERS) |->
                PROVIDERS[i].safeCommands \o PROVIDERS[i].aggressiveCommands ])
    \o BUILTIN_COMMANDS
    \o << "workbench.action.unrelated",
          "antigravity.agent.approveStep",
          "github.copilot.chat.continueSuggestion",
          "copilot.antigravity.terminal.accept",
          "Antigravity.Terminal.RunCommand",
          "chat.editor.acceptCompletion" >>

\* the patterns and keywords the code looks for in a lower-cased identifier
Keywords ==
    UNION { { LowerCased(ps[k]) : k \in 1..Len(ps) } : ps \in PatternChoices }
    \cup UNION { Members(PROVIDERS[i].contextKeywords) : i \in 1..Len(PROVIDERS) }
    \cup { "chat", "terminal", "agent", "ai", "completion", "suggestion", "supercomplete" }

LowerTable ==
    LET table == [ s \in Members(CommandUniverse)
                         \cup UNION { Members(ps) : ps \in PatternChoices } |->
                     LowerCased(s) ]
    IN  CHOOSE f \in {table} : f = table

\* s.toLowerCase()
ToLowerCase(s) == IF s \in DOMAIN LowerTable THEN LowerTable[s] ELSE LowerCased(s)

IncludesTable ==
    LET table == [ s \in { LowerTable[c] : c \in Members(CommandUniverse) } |->
                     [ kw \in Keywords |-> Occurs(s, kw) ] ]
    IN  CHOOSE f \in {table} : f = table

\* s.includes(kw)
Includes(s, kw) ==
    IF s \in DOMAIN IncludesTable /\ kw \in Keywords
    THEN IncludesTable[s][kw]
    ELSE Occurs(s, kw)

\* arr.some(kw => s.includes(kw))
SomeIncluded(s, kws) == \E k \in 1..Len(kws) : Includes(s, kws[k])

ConfigsWith(patternChoices) ==
    [ enabled : BOOLEAN,
      providers : [ProviderKeys -> BOOLEAN],
      aggressiveMode : BOOLEAN,
      commandPatterns : patternChoices ]

\* PROVIDERS.filter(p => config.get(`providers.${p.key}`, true) = on)
\*          .flatMap(p => p.contextKeywords)
ContextKeywordsWhere(cfg, on) ==
    FlatMap([ i \in 1..Len(PROVIDERS) |->
                IF cfg.providers[PROVIDERS[i].key] = on
                THEN PROVIDERS[i].contextKeywords ELSE <<>> ])

\* mutant of getEnabledProviderCommands: aggressiveMode is not consulted
getEnabledProviderCommandsAlwaysAggressive(cfg) ==
    FlatMap([ i \in 1..Len(PROVIDERS) |->
                IF cfg.providers[PROVIDERS[i].key]
                THEN PROVIDERS[i].safeCommands \o PROVIDERS[i].aggressiveCommands
                ELSE <<>> ])
    \o BUILTIN_COMMANDS

\* mutant of getEnabledProviderCommands: aggressive commands are never added
getEnabledProviderCommandsSafeOnly(cfg) ==
    FlatMap([ i \in 1..Len(PROVIDERS) |->
                IF cfg.providers[PROVIDERS[i].key]
                THEN PROVIDERS[i].safeCommands ELSE <<>> ])
    \o BUILTIN_COMMANDS

\* safe commands of the enabled providers, their aggressive commands when
\* aggressiveMode is on, then the built-ins
getEnabledProviderCommands(cfg) ==
    FlatMap([ i \in 1..Len(PROVIDERS) |->
                IF cfg.providers[PROVIDERS[i].key]
                THEN PROVIDERS[i].safeCommands
                     \o (IF cfg.aggressiveMode
                         THEN PROVIDERS[i].aggressiveCommands ELSE <<>>)
                ELSE <<>> ])
    \o BUILTIN_COMMANDS

\* mutant of FromKnown: the catalog commands are not checked against the registry
FromKnownUnchecked(allCommands, cfg) == getEnabledProviderCommands(cfg)

\* enabledKnownCommands.filter(cmd => allCommands.includes(cmd))
FromKnown(allCommands, cfg) ==
    LET inRegistry(cmd) == ArrayIncludes(allCommands, cmd)
    IN  SelectSeq(getEnabledProviderCommands(cfg), inRegistry)

isCompletionCmd(lowerCmd) ==
    \/ Includes(lowerCmd, "completion")
    \/ Includes(lowerCmd, "suggestion")
    \/ Includes(lowerCmd, "supercomplete")

safeActionKeywords == <<"terminal", "agent", "chat">>

\* mutant of MatchesPatterns: completion/suggestion commands are not skipped
MatchesPatternsKeepingCompletions(cmd, cfg) ==
    LET lowerCmd == ToLowerCase(cmd)
    IN  /\ SomeIncluded(lowerCmd, ContextKeywordsWhere(cfg, TRUE) \o <<"chat", "terminal">>)
        /\ \E k \in 1..Len(cfg.commandPatterns) :
                Includes(lowerCmd, ToLowerCase(cfg.commandPatterns[k]))
        /\ SomeIncluded(lowerCmd, safeActionKeywords)

\* the predicate of allCommands.filter(...) that builds fromPatterns
MatchesPatterns(cmd, cfg) ==
    LET lowerCmd == ToLowerCase(cmd)
        allContextKeywords == ContextKeywordsWhere(cfg, TRUE) \o <<"chat", "terminal">>
        isRelevantContext == SomeIncluded(lowerCmd, allContextKeywords)
        isAcceptAction ==
            \E k \in 1..Len(cfg.commandPatterns) :
                Includes(lowerCmd, ToLowerCase(cfg.commandPatterns[k]))
        isSafeAction == SomeIncluded(lowerCmd, safeActionKeywords)
    IN  IF ~cfg.aggressiveMode /\ isCompletionCmd(lowerCmd)
        THEN FALSE
        ELSE isRelevantContext /\ isAcceptAction /\ isSafeAction

FromPatterns(allCommands, cfg) ==
    LET keep(cmd) == MatchesPatterns(cmd, cfg)
    IN  SelectSeq(allCommands, keep)

\* mutant of FilteredPatterns: commands of disabled providers are not filtered out
FilteredPatternsKeepingDisabled(fromPatterns, cfg) == fromPatterns

\* fromPatterns.filter(cmd => !disabledKeywords.some(kw => lowerCmd.includes(kw)))
FilteredPatterns(fromPatterns, cfg) ==
    LET disabledKeywords == ContextKeywordsWhere(cfg, FALSE)
        keep(cmd) == ~SomeIncluded(ToLowerCase(cmd), disabledKeywords)
    IN  SelectSeq(fromPatterns, keep)

\* the value discoverAcceptCommands assigns to discoveredCommands
discoverAcceptCommands(allCommands, cfg) ==
    Dedup(FromKnown(allCommands, cfg)
          \o FilteredPatterns(FromPatterns(allCommands, cfg), cfg))

(***************************************************************************)
(* State.                                                                  *)
(***************************************************************************)
VARIABLES
    phase,               \* "loaded" (module evaluated), "active", "deactivated"
    config,              \* the host's configuration of the autoAcceptAG namespace
    isEnabled,           \* let isEnabled
    pollingTimer,        \* let pollingTimer: 0 is undefined, else a timer handle
    liveTimers,          \* interval timers armed in the host (setInterval minus clearInterval)
    discoveredCommands,  \* let discoveredCommands
    pending,             \* getCommands() requests in flight, counted per continuation
    pendingUpdates,      \* config.update('enabled', v) writes in flight, oldest first
    fetched,             \* the registry the last resolved discovery run was given
    invoking,            \* the commands whose executeCommand the latest step started
    fetchFailed,         \* a discovery run was rejected while isEnabled, none resolved since
    listing,             \* the marks of the latest listing logged by a manual run that
                         \* still awaits its re-discovery
    lastRun,             \* how the discovery run that finished last ended
    awaiting,            \* some invocation started by a timer callback has not settled
    lastOp               \* the handler that ran last

vars == << phase, config, isEnabled, pollingTimer, liveTimers, discoveredCommands,
           pending, pendingUpdates, fetched, invoking, fetchFailed, listing, lastRun,
           awaiting, lastOp >>

\* continuations waiting on a getCommands() request
Kinds == {"activate", "config", "manualFetch", "manualDiscover"}

PendingTotal == pending["activate"] + pending["config"]
                + pending["manualFetch"] + pending["manualDiscover"]

\* registry snapshots getCommands() resolves with in the control specification
Registries ==
    { <<>>,
      << "antigravity.terminalCommand.accept",
         "github.copilot.acceptSuggestion",
         "antigravity.agent.acceptAgentStep",
         "workbench.action.unrelated" >> }

\* configurations of the control specification: commandPatterns at its default,
\* both providers on
Configs ==
    { c \in ConfigsWith({DefaultPatterns}) : \A key \in ProviderKeys : c.providers[key] }

(***************************************************************************)
(* startPolling / stopPolling, as functions of (pollingTimer, liveTimers). *)
(***************************************************************************)
\* mutant of stopPolling: clearInterval without pollingTimer = undefined
stopPollingKeepsHandle(timer, live) == [timer |-> timer, live |-> live \ {timer}]

stopPolling(timer, live) ==
    IF timer # 0
    THEN [timer |-> 0, live |-> live \ {timer}]
    ELSE [timer |-> timer, live |-> live]

\* setInterval returns a handle no armed timer has
NewHandle(live) == CHOOSE h \in 1..(Cardinality(live) + 1) : h \notin live

\* mutant of startPolling: a new interval is armed without stopPolling first
startPollingWithoutStop(timer, live) ==
    LET h == NewHandle(live)
    IN  [timer |-> h, live |-> live \cup {h}]

\* stopPolling(), then pollingTimer = setInterval(...)
startPolling(timer, live) ==
    LET stopped == stopPolling(timer, live)
        h == NewHandle(stopped.live)
    IN  [timer |-> h, live |-> stopped.live \cup {h}]

\* the effect of a polling call on the two variables
SetPolling(p) == pollingTimer' = p.timer /\ liveTimers' = p.live

\* no manual run awaits its re-discovery: no listing is kept
NoListing == [ listed |-> {}, active |-> {}, overlap |-> FALSE ]

\* a step that is no timer callback starts no invocation and settles none
Quiet == invoking' = <<>> /\ awaiting' = awaiting

(***************************************************************************)
(* Handlers.                                                               *)
(***************************************************************************)
\* the state once the module is evaluated, the user's settings being any of configs
InitWith(configs) ==
    /\ phase = "loaded"
    /\ config \in configs
    /\ isEnabled = TRUE
    /\ pollingTimer = 0
    /\ liveTimers = {}
    /\ discoveredCommands = <<>>
    /\ pending = [k \in Kinds |-> 0]
    /\ pendingUpdates = <<>>
    /\ fetched = <<>>
    /\ invoking = <<>>
    /\ fetchFailed = FALSE
    /\ listing = NoListing
    /\ lastRun = "none"
    /\ awaiting = FALSE
    /\ lastOp = "load"

Init == InitWith(Configs)

activate ==
    /\ phase = "loaded"
    /\ phase' = "active"
    /\ isEnabled' = config.enabled
    /\ pending' = [pending EXCEPT !["activate"] = @ + 1]
    /\ lastOp' = "activate"
    /\ Quiet
    /\ UNCHANGED << listing, lastRun >>
    /\ UNCHANGED << config, pollingTimer, liveTimers, discoveredCommands,
                    pendingUpdates, fetched, fetchFailed >>

\* the listener registered with onDidChangeConfiguration, run on configuration newConfig
onDidChangeConfiguration(newConfig) ==
    /\ isEnabled' = newConfig.enabled
    /\ pending' = [pending EXCEPT !["config"] = @ + 1]

\* the user or another extension edits the namespace; the listener is
\* subscribed from activate until the host disposes it at deactivation
ConfigurationChanged ==
    /\ phase = "active"
    /\ PendingTotal < MaxPending
    /\ \E c \in Configs :
        /\ config' = c
        /\ onDidChangeConfiguration(c)
    /\ lastOp' = "ConfigurationChanged"
    /\ Quiet
    /\ UNCHANGED << listing, lastRun >>
    /\ UNCHANGED << phase, pollingTimer, liveTimers, discoveredCommands,
                    pendingUpdates, fetched, fetchFailed >>

\* mutant of toggleAutoAccept: the disabling branch does not stop the timer
toggleAutoAcceptWithoutStop ==
    /\ phase = "active"
    /\ Len(pendingUpdates) < MaxUpdates
    /\ isEnabled' = ~isEnabled
    /\ pendingUpdates' = Append(pendingUpdates, ~isEnabled)
    /\ IF ~isEnabled
       THEN SetPolling(startPolling(pollingTimer, liveTimers))
       ELSE UNCHANGED << pollingTimer, liveTimers >>
    /\ lastOp' = "toggleAutoAccept"
    /\ Quiet
    /\ UNCHANGED << listing, lastRun >>
    /\ UNCHANGED << phase, config, discoveredCommands, pending, fetched, fetchFailed >>

\* the toggle command: flip isEnabled, start the write of the setting, start
\* or stop polling
toggleAutoAccept ==
    /\ phase = "active"
    /\ Len(pendingUpdates) < MaxUpdates
    /\ isEnabled' = ~isEnabled
    /\ pendingUpdates' = Append(pendingUpdates, ~isEnabled)
    /\ IF ~isEnabled
       THEN SetPolling(startPolling(pollingTimer, liveTimers))
       ELSE SetPolling(stopPolling(pollingTimer, liveTimers))
    /\ lastOp' = "toggleAutoAccept"
    /\ Quiet
    /\ UNCHANGED << listing, lastRun >>
    /\ UNCHANGED << phase, config, discoveredCommands, pending, fetched, fetchFailed >>

\* a write started by toggleAutoAccept reaches the configuration; the host
\* then notifies the listener while it is subscribed
UpdateApplied ==
    /\ pendingUpdates # <<>>
    /\ PendingTotal < MaxPending
    /\ LET c == [config EXCEPT !.enabled = Head(pendingUpdates)]
       IN  /\ config' = c
           /\ IF phase = "active"
              THEN onDidChangeConfiguration(c)
              ELSE UNCHANGED << isEnabled, pending >>
    /\ pendingUpdates' = Tail(pendingUpdates)
    /\ lastOp' = "UpdateApplied"
    /\ Quiet
    /\ UNCHANGED << listing, lastRun >>
    /\ UNCHANGED << phase, pollingTimer, liveTimers, discoveredCommands,
                    fetched, fetchFailed >>

\* discoverAcceptCommands tabulated over the control specification's inputs, and
\* computed directly on any other input.  The comparison makes TLC evaluate
\* the table once instead of at every use.
DiscoveryTable ==
    LET table == [ r \in Registries, c \in Configs |-> discoverAcceptCommands(r, c) ]
    IN  CHOOSE f \in {table} : f = table

Discovered(allCommands, cfg) ==
    IF <<allCommands, cfg>> \in DOMAIN DiscoveryTable
    THEN DiscoveryTable[allCommands, cfg]
    ELSE discoverAcceptCommands(allCommands, cfg)

\* mutant of DiscoveryResolved: aggressiveMode is taken as off whatever the
\* configuration says when the fetch resolves
DiscoveryResolvedInSafeMode(kind, allCommands) ==
    /\ pending[kind] > 0
    /\ pending' = [pending EXCEPT ![kind] = @ - 1]
    /\ fetched' = allCommands
    /\ discoveredCommands' = Discovered(allCommands, [config EXCEPT !.aggressiveMode = FALSE])
    /\ fetchFailed' = FALSE
    /\ lastRun' = "resolved"

\* the await of getCommands() in discoverAcceptCommands resumes with allCommands:
\* the configuration is read now and discoveredCommands is replaced
DiscoveryResolved(kind, allCommands) ==
    /\ pending[kind] > 0
    /\ pending' = [pending EXCEPT ![kind] = @ - 1]
    /\ fetched' = allCommands
    /\ discoveredCommands' = Discovered(allCommands, config)
    /\ fetchFailed' = FALSE
    /\ lastRun' = "resolved"

\* the continuation activate chains on its discovery run
ActivateDiscoveryDone(registries) ==
    /\ \E allCommands \in registries : DiscoveryResolved("activate", allCommands)
    /\ IF isEnabled
       THEN SetPolling(startPolling(pollingTimer, liveTimers))
       ELSE UNCHANGED << pollingTimer, liveTimers >>
    /\ lastOp' = "ActivateDiscoveryDone"
    /\ Quiet
    /\ listing' = listing
    /\ UNCHANGED << phase, config, isEnabled, pendingUpdates >>

\* the continuation the configuration listener chains on its discovery run
ConfigDiscoveryDone(registries) ==
    /\ \E allCommands \in registries : DiscoveryResolved("config", allCommands)
    /\ IF isEnabled
       THEN SetPolling(startPolling(pollingTimer, liveTimers))
       ELSE SetPolling(stopPolling(pollingTimer, liveTimers))
    /\ lastOp' = "ConfigDiscoveryDone"
    /\ Quiet
    /\ listing' = listing
    /\ UNCHANGED << phase, config, isEnabled, pendingUpdates >>

\* the user command autoAcceptAG.discoverCommands, up to its own getCommands() await
discoverAndLogCommands ==
    /\ phase = "active"
    /\ PendingTotal < MaxPending
    /\ pending' = [pending EXCEPT !["manualFetch"] = @ + 1]
    /\ lastOp' = "discoverAndLogCommands"
    /\ Quiet
    /\ UNCHANGED << listing, lastRun >>
    /\ UNCHANGED << phase, config, isEnabled, pollingTimer, liveTimers,
                    discoveredCommands, pendingUpdates, fetched, fetchFailed >>

\* PROVIDERS.flatMap(p => p.contextKeywords) and 'chat', 'terminal', 'agent', 'ai'
allKeywords ==
    FlatMap([ i \in 1..Len(PROVIDERS) |-> PROVIDERS[i].contextKeywords ])
    \o <<"chat", "terminal", "agent", "ai">>

\* allCommands.filter(cmd => allKeywords.some(kw => l.includes(kw)))
relevantCommands(allCommands) ==
    LET keep(cmd) == SomeIncluded(ToLowerCase(cmd), allKeywords)
    IN  SelectSeq(allCommands, keep)

RelevantTable ==
    LET table == [ r \in Registries |-> relevantCommands(r) ]
    IN  CHOOSE f \in {table} : f = table

\* the listing logged for allCommands: the relevant commands and, of them,
\* those marked active, which are those discoveredCommands includes now (the
\* sort only orders the lines); concurrent says whether another manual run
\* was awaiting its re-discovery when the lines were written
Listed(allCommands, commands, concurrent) ==
    LET relevant == Members(IF allCommands \in DOMAIN RelevantTable
                            THEN RelevantTable[allCommands]
                            ELSE relevantCommands(allCommands))
    IN  [ listed |-> relevant,
          active |-> { cmd \in relevant : ArrayIncludes(commands, cmd) },
          overlap |-> concurrent ]

\* the listing kept once a manual run has returned: none when it was the last
\* one awaiting its re-discovery
Returned(marks, awaited) == IF awaited = 0 THEN NoListing ELSE marks

\* its getCommands() resolves: the listing is logged against the current
\* discoveredCommands, then discoverAcceptCommands is called and awaited
ManualFetchResolved(registries) ==
    /\ pending["manualFetch"] > 0
    /\ pending' = [pending EXCEPT !["manualFetch"] = @ - 1,
                                  !["manualDiscover"] = @ + 1]
    /\ \E allCommands \in registries :
        listing' = Listed(allCommands, discoveredCommands, pending["manualDiscover"] > 0)
    /\ lastOp' = "ManualFetchResolved"
    /\ Quiet
    /\ lastRun' = lastRun
    /\ UNCHANGED << phase, config, isEnabled, pollingTimer, liveTimers,
                    discoveredCommands, pendingUpdates, fetched, fetchFailed >>

\* the re-discovery of discoverAndLogCommands resolves; the rest only logs
ManualDiscoveryDone(registries) ==
    /\ \E allCommands \in registries : DiscoveryResolved("manualDiscover", allCommands)
    /\ lastOp' = "ManualDiscoveryDone"
    /\ Quiet
    /\ listing' = Returned(listing, pending'["manualDiscover"])
    /\ UNCHANGED << phase, config, isEnabled, pollingTimer, liveTimers, pendingUpdates >>

RejectedOp ==
    [ kind \in {"activate", "config", "manualDiscover"} |->
        CASE kind = "activate" -> "ActivateDiscoveryRejected"
          [] kind = "config" -> "ConfigDiscoveryRejected"
          [] kind = "manualDiscover" -> "ManualDiscoveryRejected" ]

\* mutant of DiscoveryRejected: a rejected run clears discoveredCommands
DiscoveryRejectedClearing ==
    /\ \E kind \in {"activate", "config", "manualDiscover"} :
        /\ pending[kind] > 0
        /\ pending' = [pending EXCEPT ![kind] = @ - 1]
        /\ lastOp' = RejectedOp[kind]
    /\ discoveredCommands' = <<>>
    /\ fetchFailed' = (fetchFailed \/ isEnabled)
    /\ Quiet
    /\ listing' = Returned(listing, pending'["manualDiscover"])
    /\ lastRun' = "rejected"
    /\ UNCHANGED << phase, config, isEnabled, pollingTimer, liveTimers,
                    pendingUpdates, fetched >>

\* getCommands() is rejected inside discoverAcceptCommands: the await throws,
\* the function ends before its assignment and, no rejection handler being
\* chained, the continuation never runs
DiscoveryRejected ==
    /\ \E kind \in {"activate", "config", "manualDiscover"} :
        /\ pending[kind] > 0
        /\ pending' = [pending EXCEPT ![kind] = @ - 1]
        /\ lastOp' = RejectedOp[kind]
    /\ fetchFailed' = (fetchFailed \/ isEnabled)
    /\ Quiet
    /\ listing' = Returned(listing, pending'["manualDiscover"])
    /\ lastRun' = "rejected"
    /\ UNCHANGED << phase, config, isEnabled, pollingTimer, liveTimers,
                    discoveredCommands, pendingUpdates, fetched >>

\* the getCommands() of discoverAndLogCommands itself is rejected
ManualFetchRejected ==
    /\ pending["manualFetch"] > 0
    /\ pending' = [pending EXCEPT !["manualFetch"] = @ - 1]
    /\ lastOp' = "ManualFetchRejected"
    /\ Quiet
    /\ UNCHANGED << listing, lastRun >>
    /\ UNCHANGED << phase, config, isEnabled, pollingTimer, liveTimers,
                    discoveredCommands, pendingUpdates, fetched, fetchFailed >>

\* mutant of TickInvocations: the callback does not test isEnabled
TickInvocationsIgnoringEnabled(enabled, commands) == commands

\* mutant of TickInvocations: the first command is left out
TickInvocationsSkippingFirst(enabled, commands) ==
    IF ~enabled \/ Len(commands) = 0 THEN <<>> ELSE Tail(commands)

\* the commands one callback of the interval timer passes to executeCommand
TickInvocations(enabled, commands) ==
    IF ~enabled \/ Len(commands) = 0 THEN <<>> ELSE commands

\* mutant of Tick: a re-entrancy guard skips the callback while an earlier one
\* is still awaiting its invocations
TickSingleFlight ==
    /\ awaiting = FALSE
    /\ \E t \in liveTimers :
        invoking' = TickInvocations(isEnabled, discoveredCommands)
    /\ awaiting' = (awaiting \/ invoking' # <<>>)
    /\ lastOp' = "Tick"
    /\ UNCHANGED << phase, config, isEnabled, pollingTimer, liveTimers,
                    discoveredCommands, pending, pendingUpdates, fetched, fetchFailed,
                    listing, lastRun >>

\* one callback of an armed interval timer: every executeCommand is called
\* before the callback suspends at await Promise.allSettled(...)
Tick ==
    /\ \E t \in liveTimers :
        invoking' = TickInvocations(isEnabled, discoveredCommands)
    /\ awaiting' = (awaiting \/ invoking' # <<>>)
    /\ lastOp' = "Tick"
    /\ UNCHANGED << phase, config, isEnabled, pollingTimer, liveTimers,
                    discoveredCommands, pending, pendingUpdates, fetched, fetchFailed,
                    listing, lastRun >>

\* an unsettled invocation settles, fulfilled or rejected (the command is not
\* registered), and others may stay unsettled: the callback that awaits it
\* goes on, and ends, once all of its invocations have settled.  An
\* invocation that never settles is this step never taken.
InvocationSettled ==
    /\ awaiting
    /\ awaiting' \in BOOLEAN
    /\ \E outcome \in {"InvocationFulfilled", "InvocationRejected"} : lastOp' = outcome
    /\ invoking' = <<>>
    /\ UNCHANGED << phase, config, isEnabled, pollingTimer, liveTimers,
                    discoveredCommands, pending, pendingUpdates, fetched, fetchFailed,
                    listing, lastRun >>

\* mutant of deactivate: teardown also empties discoveredCommands
deactivateClearing ==
    /\ phase = "active"
    /\ phase' = "deactivated"
    /\ SetPolling(stopPolling(pollingTimer, liveTimers))
    /\ discoveredCommands' = <<>>
    /\ lastOp' = "deactivate"
    /\ Quiet
    /\ UNCHANGED << listing, lastRun >>
    /\ UNCHANGED << config, isEnabled, pending, pendingUpdates, fetched, fetchFailed >>

\* the host unloads the extension: stopPolling()
deactivate ==
    /\ phase = "active"
    /\ phase' = "deactivated"
    /\ SetPolling(stopPolling(pollingTimer, liveTimers))
    /\ lastOp' = "deactivate"
    /\ Quiet
    /\ UNCHANGED << listing, lastRun >>
    /\ UNCHANGED << config, isEnabled, discoveredCommands, pending,
                    pendingUpdates, fetched, fetchFailed >>

(***************************************************************************)
(* The control specification: every handler, few registries.               *)
(***************************************************************************)
Next ==
    \/ activate
    \/ ConfigurationChanged
    \/ toggleAutoAccept
    \/ UpdateApplied
    \/ ActivateDiscoveryDone(Registries)
    \/ ConfigDiscoveryDone(Registries)
    \/ discoverAndLogCommands
    \/ ManualFetchResolved(Registries)
    \/ ManualDiscoveryDone(Registries)
    \/ DiscoveryRejected
    \/ ManualFetchRejected
    \/ Tick
    \/ InvocationSettled
    \/ deactivate

Spec == Init /\ [][Next]_vars

(***************************************************************************)
(* The discovery specification: one discovery run, from activate, over     *)
(* every configuration and every registry of at most MaxRegistry commands  *)
(* drawn from CommandUniverse.                                             *)
(***************************************************************************)
\* a registry holding a safe command, an aggressive one and an unrelated one
ExampleRegistry ==
    << "antigravity.terminalCommand.accept",
       "github.copilot.acceptSuggestion",
       "workbench.action.unrelated" >>

\* the arrays of at most MaxRegistry commands of CommandUniverse, in its order,
\* a command possibly listed more than once, and ExampleRegistry
WideRegistries ==
    { [k \in 1..Len(idx) |-> CommandUniverse[idx[k]]] :
        idx \in { x \in UNION { [1..n -> 1..Len(CommandUniverse)] : n \in 0..MaxRegistry } :
                    \A j \in 1..Len(x), k \in 1..Len(x) : j < k => x[j] <= x[k] } }
    \cup { ExampleRegistry }

InitDisc == InitWith({ c \in ConfigsWith(PatternChoices) : c.enabled })

NextDisc ==
    \/ activate
    \/ ActivateDiscoveryDone(WideRegistries)

SpecDisc == InitDisc /\ [][NextDisc]_vars

(***************************************************************************)
(* Properties.                                                             *)
(***************************************************************************)
\* the steps that end a resolved discovery run; config is then what the run read
DiscoveryDoneOps == {"ActivateDiscoveryDone", "ConfigDiscoveryDone", "ManualDiscoveryDone"}

RejectedOps == {"ActivateDiscoveryRejected", "ConfigDiscoveryRejected",
                "ManualDiscoveryRejected"}

TimerArmed == pollingTimer # 0

Active(cmd) == \E k \in 1..Len(discoveredCommands) : discoveredCommands[k] = cmd

InFetched(cmd) == \E k \in 1..Len(fetched) : fetched[k] = cmd

C2_NoInvocationWhileDisabled == [][~isEnabled => invoking' = <<>>]_vars

\* just toggled off with commands discovered and discovery runs still pending
C2_Witness ==
    /\ lastOp = "toggleAutoAccept"
    /\ ~isEnabled
    /\ discoveredCommands # <<>>
    /\ pending["config"] > 0
    /\ pending["manualDiscover"] > 0

\* C3, as claimed: once deactivate has run no polling timer is armed.
C3_NoTimerAfterDeactivate ==
    phase = "deactivated" => (liveTimers = {} /\ ~TimerArmed)

\* C4, as claimed: a discovery run with aggressiveMode off leaves no command
\* whose lower-cased identifier contains completion, suggestion or supercomplete.
C4_NoCompletionCommands ==
    (lastOp \in DiscoveryDoneOps /\ ~config.aggressiveMode)
        => \A k \in 1..Len(discoveredCommands) :
              LET l == ToLowerCase(discoveredCommands[k])
              IN  /\ ~Includes(l, "completion")
                  /\ ~Includes(l, "suggestion")
                  /\ ~Includes(l, "supercomplete")

\* C4, amended: after a discovery run with aggressiveMode off, every active
\* command whose lower-cased identifier contains completion, suggestion or
\* supercomplete is a built-in or a safe command of an enabled provider; no
\* command found by pattern matching alone contains them.
C4_CompletionCommandsOnlyFromCatalog ==
    (lastOp \in DiscoveryDoneOps /\ ~config.aggressiveMode)
        => \A k \in 1..Len(discoveredCommands) :
              LET cmd == discoveredCommands[k]
                  l == ToLowerCase(cmd)
              IN  (Includes(l, "completion") \/ Includes(l, "suggestion")
                     \/ Includes(l, "supercomplete"))
                  => \/ \E b \in 1..Len(BUILTIN_COMMANDS) : BUILTIN_COMMANDS[b] = cmd
                     \/ \E i \in 1..Len(PROVIDERS) :
                          /\ config.providers[PROVIDERS[i].key]
                          /\ \E j \in 1..Len(PROVIDERS[i].safeCommands) :
                                PROVIDERS[i].safeCommands[j] = cmd

\* safe mode: a catalog suggestion command is active, a pattern-matching one is not
C4_Witness ==
    /\ lastOp = "ActivateDiscoveryDone"
    /\ ~config.aggressiveMode
    /\ config.providers["copilot"]
    /\ config.commandPatterns = DefaultPatterns
    /\ InFetched("github.copilot.chat.continueSuggestion")
    /\ ~Active("github.copilot.chat.continueSuggestion")
    /\ Active("antigravity.prioritized.terminalSuggestion.accept")

\* C5, as claimed: a discovery run with aggressiveMode off leaves no command of
\* any provider's aggressiveCommands list active.
C5_NoAggressiveInSafeMode ==
    (lastOp \in DiscoveryDoneOps /\ ~config.aggressiveMode)
        => \A k \in 1..Len(discoveredCommands) :
              \A i \in 1..Len(PROVIDERS) :
                 \A j \in 1..Len(PROVIDERS[i].aggressiveCommands) :
                    discoveredCommands[k] # PROVIDERS[i].aggressiveCommands[j]

\* C6: after a discovery run made with a provider disabled, no active command
\* contains, lower-cased, a context keyword of that provider.
C6_NoCommandOfDisabledProvider ==
    lastOp \in DiscoveryDoneOps
        => \A i \in 1..Len(PROVIDERS) :
              ~config.providers[PROVIDERS[i].key]
              => \A k \in 1..Len(discoveredCommands) :
                    \A j \in 1..Len(PROVIDERS[i].contextKeywords) :
                       ~Includes(ToLowerCase(discoveredCommands[k]),
                                 PROVIDERS[i].contextKeywords[j])

\* copilot disabled: a registered command naming both providers is dropped,
\* a command of the enabled provider stays
C6_Witness ==
    /\ lastOp = "ActivateDiscoveryDone"
    /\ ~config.providers["copilot"]
    /\ config.providers["antigravity"]
    /\ config.commandPatterns = DefaultPatterns
    /\ InFetched("copilot.antigravity.terminal.accept")
    /\ InFetched("antigravity.terminalCommand.accept")
    /\ discoveredCommands = <<"antigravity.terminalCommand.accept">>

\* C7: a rejected registry fetch of a discovery run leaves discoveredCommands,
\* isEnabled, the timer and the lifecycle phase as they were.
C7_RejectionChangesNothing ==
    [][lastOp' \in RejectedOps
        => /\ discoveredCommands' = discoveredCommands
           /\ isEnabled' = isEnabled
           /\ pollingTimer' = pollingTimer
           /\ liveTimers' = liveTimers
           /\ phase' = phase]_vars

\* a run was rejected while commands were discovered and the timer armed
C7_Witness ==
    /\ lastOp \in RejectedOps
    /\ discoveredCommands # <<>>
    /\ TimerArmed
    /\ isEnabled

\* C8, as claimed: when the reaction to a configuration change has finished,
\* its discovery run resolved or rejected, and nothing else is in flight, a
\* timer is armed iff isEnabled.
C8_ReactionMatchesEnabled ==
    (/\ lastOp \in {"ConfigDiscoveryDone", "ConfigDiscoveryRejected"}
     /\ phase = "active"
     /\ PendingTotal = 0
     /\ pendingUpdates = <<>>)
        => (TimerArmed <=> isEnabled)

\* C9, as claimed: once a discovery run was rejected while isEnabled, the next
\* discovery run that resolves, manual or configuration-triggered, leaves the
\* timer armed if isEnabled is still true.
C9_NextDiscoveryArmsTimer ==
    [][(/\ fetchFailed
        /\ phase = "active"
        /\ lastOp' \in {"ManualDiscoveryDone", "ConfigDiscoveryDone"}
        /\ isEnabled')
        => pollingTimer' # 0]_vars

\* C10: a timer callback invokes nothing when isEnabled is false or
\* discoveredCommands is empty, and otherwise invokes exactly the commands of
\* discoveredCommands as it is then, each once.
C10_TickInvokesActiveSet ==
    lastOp = "Tick"
        => /\ (~isEnabled \/ Len(discoveredCommands) = 0) => invoking = <<>>
           /\ (isEnabled /\ Len(discoveredCommands) > 0)
                => /\ Len(invoking) = Len(discoveredCommands)
                   /\ \A cmd \in {discoveredCommands[k] : k \in 1..Len(discoveredCommands)} :
                         Cardinality({k \in 1..Len(invoking) : invoking[k] = cmd}) = 1
                   /\ \A k \in 1..Len(invoking) : Active(invoking[k])

\* a callback that invoked several commands
C10_Witness ==
    /\ lastOp = "Tick"
    /\ isEnabled
    /\ Len(invoking) >= 2

\* C11: an invocation that is rejected or never settles stops no timer, and
\* while a timer is armed its next callback can fire whatever is still
\* unsettled; every callback taken with isEnabled true invokes all of
\* discoveredCommands, whatever happens to any one of the invocations.
C11_FailuresBlockNothing ==
    [][/\ liveTimers # {} => ENABLED Tick
       /\ lastOp' \in {"Tick", "InvocationFulfilled", "InvocationRejected"}
            => (liveTimers' = liveTimers /\ pollingTimer' = pollingTimer)
       /\ (lastOp' = "Tick" /\ isEnabled) => invoking' = discoveredCommands]_vars

\* an invocation was rejected while others are still unsettled: the timer is
\* armed and its next callback, which will invoke the whole set, can fire
C11_Witness ==
    /\ lastOp = "InvocationRejected"
    /\ awaiting
    /\ isEnabled
    /\ Len(discoveredCommands) >= 2
    /\ TimerArmed
    /\ ENABLED Tick

\* C12: discoveredCommands never holds the same identifier twice, whatever
\* the configuration and the registry, a registry that lists a command more
\* than once included.
C12_NoDuplicates ==
    \A j \in 1..Len(discoveredCommands), k \in 1..Len(discoveredCommands) :
        j # k => discoveredCommands[j] # discoveredCommands[k]

\* a command listed twice by the registry, in the catalog and matched by the
\* patterns, is in the set once
C12_Witness ==
    /\ lastOp \in DiscoveryDoneOps
    /\ fetched = << "antigravity.terminalCommand.accept",
                    "antigravity.terminalCommand.accept" >>
    /\ MatchesPatterns("antigravity.terminalCommand.accept", config)
    /\ discoveredCommands = << "antigravity.terminalCommand.accept" >>

\* C13: with aggressiveMode off, both providers enabled and the default
\* patterns, a discovery run over ExampleRegistry leaves exactly
\* "antigravity.terminalCommand.accept" in discoveredCommands.
C13_ExampleDiscovery ==
    ( /\ lastOp \in DiscoveryDoneOps
      /\ fetched = ExampleRegistry
      /\ ~config.aggressiveMode
      /\ \A key \in ProviderKeys : config.providers[key]
      /\ config.commandPatterns = DefaultPatterns )
    => discoveredCommands = << "antigravity.terminalCommand.accept" >>

\* the example run has happened: the aggressive and the unrelated command of
\* the registry are left out
C13_Witness ==
    /\ lastOp = "ActivateDiscoveryDone"
    /\ fetched = ExampleRegistry
    /\ ~config.aggressiveMode
    /\ config.providers["antigravity"] /\ config.providers["copilot"]
    /\ config.commandPatterns = DefaultPatterns
    /\ Active("antigravity.terminalCommand.accept")
    /\ ~Active("github.copilot.acceptSuggestion")
    /\ ~Active("workbench.action.unrelated")

\* C14 as stated: after a discovery run with aggressiveMode on over a registry
\* that holds "antigravity.acceptCompletion", the command is in
\* discoveredCommands.
C14_AcceptCompletionIncluded ==
    ( /\ lastOp \in DiscoveryDoneOps
      /\ config.aggressiveMode
      /\ InFetched("antigravity.acceptCompletion") )
    => Active("antigravity.acceptCompletion")

\* C14: after a discovery run with aggressiveMode on and the antigravity
\* provider enabled over a registry that holds "antigravity.acceptCompletion",
\* the command is in discoveredCommands.
C14_AcceptCompletionIncludedWhenProviderOn ==
    ( /\ lastOp \in DiscoveryDoneOps
      /\ config.aggressiveMode
      /\ config.providers["antigravity"]
      /\ InFetched("antigravity.acceptCompletion") )
    => Active("antigravity.acceptCompletion")

\* the command was taken from the catalog: no pattern matches it
C14_Witness ==
    /\ lastOp = "ActivateDiscoveryDone"
    /\ config.aggressiveMode
    /\ config.providers["antigravity"]
    /\ InFetched("antigravity.acceptCompletion")
    /\ ~MatchesPatterns("antigravity.acceptCompletion", config)
    /\ Active("antigravity.acceptCompletion")

\* C15: every toggle step flips isEnabled and ends with a timer armed when
\* the new isEnabled is true and with none when it is false, whatever the flag
\* and the timer were before.
C15_ToggleFlipsAndMatches ==
    [][lastOp' = "toggleAutoAccept"
        => /\ isEnabled' = ~isEnabled
           /\ (pollingTimer' # 0) = isEnabled'
           /\ liveTimers' = (IF isEnabled' THEN {pollingTimer'} ELSE {})]_vars

\* a toggle switched polling on in a run where flag and timer had come apart
\* (a discovery run was rejected earlier and none has resolved since)
C15_Witness ==
    /\ lastOp = "toggleAutoAccept"
    /\ fetchFailed
    /\ isEnabled
    /\ liveTimers = {pollingTimer}
    /\ pollingTimer # 0

\* C16: in every reachable state at most one interval timer is armed, and it
\* is the one pollingTimer holds; stopPolling with no timer held changes
\* neither the handle nor the armed timers.
C16_AtMostOneTimer ==
    /\ Cardinality(liveTimers) <= 1
    /\ liveTimers = (IF pollingTimer # 0 THEN {pollingTimer} ELSE {})
    /\ pollingTimer = 0
        => stopPolling(pollingTimer, liveTimers)
             = [timer |-> pollingTimer, live |-> liveTimers]
    /\ Cardinality(startPolling(pollingTimer, liveTimers).live) = 1

\* polling was started by a toggle and started again by the continuation of
\* a configuration reaction: one timer is armed
C16_Witness ==
    /\ lastOp = "ConfigDiscoveryDone"
    /\ isEnabled
    /\ pendingUpdates = << TRUE >>
    /\ Cardinality(liveTimers) = 1
    /\ pollingTimer \in liveTimers

\* the lower-cased name of cmd contains one of the keywords
ContainsAny(cmd, keywords) == \E kw \in keywords : Includes(ToLowerCase(cmd), kw)

\* the set the discovery rules describe for a registry and a configuration:
\* the applicable catalog commands and the built-ins that the registry holds,
\* and the registry commands that pass the keyword rules
DescribedActiveSet(registry, cfg) ==
    LET on == { i \in 1..Len(PROVIDERS) : cfg.providers[PROVIDERS[i].key] }
        off == (1..Len(PROVIDERS)) \ on
        catalog ==
            UNION { Members(PROVIDERS[i].safeCommands) : i \in on }
            \cup (IF cfg.aggressiveMode
                  THEN UNION { Members(PROVIDERS[i].aggressiveCommands) : i \in on }
                  ELSE {})
            \cup Members(BUILTIN_COMMANDS)
        enabledKeywords == UNION { Members(PROVIDERS[i].contextKeywords) : i \in on }
        disabledKeywords == UNION { Members(PROVIDERS[i].contextKeywords) : i \in off }
        candidates ==
            { cmd \in Members(registry) :
                /\ ContainsAny(cmd, enabledKeywords \cup {"chat", "terminal"})
                /\ \E p \in Members(cfg.commandPatterns) :
                        Includes(ToLowerCase(cmd), ToLowerCase(p))
                /\ ContainsAny(cmd, {"terminal", "agent", "chat"})
                /\ cfg.aggressiveMode
                    \/ ~ContainsAny(cmd, {"completion", "suggestion", "supercomplete"})
                /\ ~ContainsAny(cmd, disabledKeywords) }
    IN  (catalog \cap Members(registry)) \cup candidates

C18_SetChangesOnlyOnDiscovery ==
    /\ discoveredCommands = <<>>
    /\ [][/\ discoveredCommands' # discoveredCommands => lastOp' \in DiscoveryDoneOps
          /\ lastOp' \in DiscoveryDoneOps
                => discoveredCommands' = Discovered(fetched', config')
          /\ lastOp' = "Tick" => invoking' \in {<<>>, discoveredCommands}]_vars

\* a discovery run replaced a non-empty set and the extension was then
\* deactivated with an invocation unsettled: the set is still that result
C18_Witness ==
    /\ lastOp = "deactivate"
    /\ awaiting
    /\ pendingUpdates # <<>>
    /\ discoveredCommands # <<>>
    /\ discoveredCommands = Discovered(fetched, config)

\* C19: when a manual discover-and-report run completes, every command its
\* listing shows is marked active exactly when it is in discoveredCommands as
\* this run's own discovery leaves it (runs whose listing was written while
\* another manual run was awaiting its discovery are left aside).
C19_MarksMatchOwnRun ==
    [][(lastOp' = "ManualDiscoveryDone" /\ ~listing.overlap)
        => \A cmd \in listing.listed :
              (cmd \in listing.active) = ArrayIncludes(discoveredCommands', cmd)]_vars

\* no discovery run awaits its registry fetch
NoRunPending ==
    pending["activate"] = 0 /\ pending["config"] = 0 /\ pending["manualDiscover"] = 0

\* C20: whenever no discovery run is pending and the run that finished last
\* resolved, discoveredCommands is the discovery result for the configuration
\* as it is now, applied to the registry that run fetched.
C20_SetMatchesCurrentConfig ==
    (NoRunPending /\ lastRun = "resolved")
    => discoveredCommands = discoverAcceptCommands(fetched, config)

\* a manual run finished last, after the others, under aggressive mode with
\* a toggle's write still on its way: the set holds the aggressive command
C20_Witness ==
    /\ lastOp = "ManualDiscoveryDone"
    /\ NoRunPending
    /\ lastRun = "resolved"
    /\ pendingUpdates # <<>>
    /\ config.aggressiveMode /\ config.providers["copilot"]
    /\ Active("github.copilot.acceptSuggestion")

=============================================================================
